---- MODULE Spec2Model ----
(***************************************************************************)
(* Model of the commutation / protection interrupt of the hoverboard FOC   *)
(* firmware (bldc.c): the DMA1 channel 1 interrupt handler, its overrun    *)
(* guard, the ADC offset calibration and the run-time control tick.        *)
(*                                                                         *)
(* Granularity.  One invocation of DMA1_Channel1_IRQHandler is modelled   *)
(* by the steps                                                            *)
(*   entry (lines 177-184)  ->  timer_brushless() (line 185)  ->  line 187 *)
(* and the run-time handler bldc_control is cut once more between the left *)
(* motor section (lines 220-284) and the right motor section (288-353).    *)
(* pc is the position of the outermost invocation.  An invocation that     *)
(* arrives while pc # "idle" is a nested one; it finds OverrunFlag set and *)
(* returns inside its entry step.  The buzzer and battery filter tail of   *)
(* the handler (lines 188-215) touches none of the modelled state.         *)
(* bldc_start_calibration called from the main program is taken as atomic. *)
(* z_ctrlModReq (line 258/327) only forwards an external variable and is   *)
(* left out of the input records.                                          *)
(***************************************************************************)
EXTENDS Integers, Sequences, FiniteSets, TLC

VARIABLES
  timer_brushless,  \* "nullFunc" | "calibration_func" | "bldc_control"
  OverrunFlag,      \* static boolean_T OverrunFlag
  mainCounter,      \* static uint64_t mainCounter
  offset,           \* offsetrlA .. offsetdcr, indexed by ADC channel
  cur,              \* curL_phaA, curL_phaB, curL_DC, curR_phaB, curR_phaC, curR_DC
  pos,              \* pos[2][2], motors L/R, slots 0 (current) and 1 (previous)
  steps,            \* steps[2]
  enable,           \* administrative enable (uint8_t)
  enableFin,        \* Enable/Fault gate
  pwml, pwmr,       \* requested targets
  pwm_margin,       \* static int16_t pwm_margin
  rtU_Left, rtU_Right,   \* control step input records
  rtY_Left, rtY_Right,   \* control step output records
  z_ctrlTypSel,     \* rtP_Left.z_ctrlTypSel, rtP_Right.z_ctrlTypSel
  MOE,              \* TIM_BDTR_MOE bit of LEFT_TIM / RIGHT_TIM
  CCR,              \* the six compare registers LEFT_TIM_U .. RIGHT_TIM_W
  IDR,              \* hall input pin levels, three per motor
  adc_buffer,       \* raw samples written by the DMA
  pc                \* position of the interrupt handler

vars == <<timer_brushless, OverrunFlag, mainCounter, offset, cur, pos, steps,
          enable, enableFin, pwml, pwmr, pwm_margin, rtU_Left, rtU_Right,
          rtY_Left, rtY_Right, z_ctrlTypSel, MOE, CCR, IDR, adc_buffer, pc>>

(***************************************************************************)
(* Program constants                                                       *)
(***************************************************************************)
pwm_res == 2000

curDC_max == 850

\* values of z_ctrlTypSel: commutation, sinusoidal, field oriented control
CtrlTypes == {"COM_CTRL", "SIN_CTRL", "FOC_CTRL"}

(***************************************************************************)
(* Bounds of the model                                                     *)
(***************************************************************************)
\* number of samples averaged by the calibration (config.h), scaled down
CALIBRATION_SAMPLES == 3

\* interrupts are no longer raised once mainCounter has reached this value
MaxCounter == 5

\* interrupts are no longer raised once a step counter has reached this value
MaxSteps == 2

Motors == {"L", "R"}

Channels == {"rlA", "rlB", "rrB", "rrC", "dcl", "dcr"}

Bit == {0, 1}

(***************************************************************************)
(* Integer conversions                                                     *)
(***************************************************************************)
\* (int16_t)x for an int or uint32_t x: low 16 bits, two's complement
ToInt16(x) == LET r == x % 65536 IN IF r >= 32768 THEN r - 65536 ELSE r

\* (uint16_t)x
ToUint16(x) == x % 65536

\* !(port->IDR & pin): 1 when the pin reads low
NotPin(level) == IF level # 0 THEN 0 ELSE 1

ABS(a) == IF a < 0 THEN -a ELSE a

CLAMP(x, lo, hi) == IF x > hi THEN hi ELSE IF x < lo THEN lo ELSE x

(***************************************************************************)
(* Position decoder                                                        *)
(***************************************************************************)
\* the two impossible hall patterns left out of range
hall2pos_Unreserved == << << <<255, 2>>, <<4, 3>> >>, << <<0, 1>>, <<5, 255>> >> >>

hall2pos == << << <<6, 2>>, <<4, 3>> >>, << <<0, 1>>, <<5, 6>> >> >>

\* hall2pos[u][v][w] with C's zero based indices
Hall2Pos(u, v, w) == hall2pos[u + 1][v + 1][w + 1]

\* the three hall bits of motor m as the code reads them from the pins
HallBits(m) == [i \in 1..3 |-> NotPin(IDR[m][i])]

DecodedPos(m) == LET h == HallBits(m) IN Hall2Pos(h[1], h[2], h[3])

(***************************************************************************)
(* bldc_start_calibration (lines 110-127)                                  *)
(***************************************************************************)
ZeroOffsets == [c \in Channels |-> 0]

\* both history slots of both motors take the sector decoded right now
PosSnapshot == [m \in Motors |-> [i \in 0..1 |-> DecodedPos(m)]]

\* the values bldc_start_calibration leaves behind
bldc_start_calibration ==
  [mainCounter |-> 0, offset |-> ZeroOffsets, pos |-> PosSnapshot,
   handler |-> "calibration_func"]

\* the call made by the main program, outside the interrupt
Main_bldc_start_calibration ==
  /\ pc = "idle"
  /\ mainCounter' = bldc_start_calibration.mainCounter
  /\ offset' = bldc_start_calibration.offset
  /\ pos' = bldc_start_calibration.pos
  /\ timer_brushless' = bldc_start_calibration.handler
  /\ UNCHANGED <<OverrunFlag, cur, steps, enable, enableFin, pwml, pwmr,
                 pwm_margin, rtU_Left, rtU_Right, rtY_Left, rtY_Right,
                 z_ctrlTypSel, MOE, CCR, IDR, adc_buffer, pc>>

(***************************************************************************)
(* calibration_func (lines 129-170)                                        *)
(***************************************************************************)
\* lines 141-144: either motor's sector differs from its stored baseline
MotorMoved == \E m \in Motors : DecodedPos(m) # pos[m][0]

\* offsetX += adc_buffer.X for the six channels
Accumulate(off) == [c \in Channels |-> off[c] + adc_buffer[c]]

\* offsetX /= CALIBRATION_SAMPLES for the six channels
Average(off) == [c \in Channels |-> off[c] \div CALIBRATION_SAMPLES]

\* the finalizing tick divides without adding its own sample
CalibrationStep_NoFinalSample(cnt, off) ==
  IF cnt < CALIBRATION_SAMPLES
  THEN [offset |-> Accumulate(off), handler |-> "calibration_func"]
  ELSE IF cnt = CALIBRATION_SAMPLES
       THEN [offset |-> Average(off), handler |-> "bldc_control"]
       ELSE [offset |-> off, handler |-> "calibration_func"]

\* every accumulating tick already divides the running sum
CalibrationStep_DivideEveryTick(cnt, off) ==
  IF cnt < CALIBRATION_SAMPLES
  THEN [offset |-> Average(Accumulate(off)), handler |-> "calibration_func"]
  ELSE IF cnt = CALIBRATION_SAMPLES
       THEN [offset |-> Average(Accumulate(off)), handler |-> "bldc_control"]
       ELSE [offset |-> off, handler |-> "calibration_func"]

\* lines 146-169 for the counter value cnt and the accumulators off
CalibrationStep(cnt, off) ==
  IF cnt < CALIBRATION_SAMPLES
  THEN [offset |-> Accumulate(off), handler |-> "calibration_func"]
  ELSE IF cnt = CALIBRATION_SAMPLES
       THEN [offset |-> Average(Accumulate(off)), handler |-> "bldc_control"]
       ELSE [offset |-> off, handler |-> "calibration_func"]

calibration_func ==
  /\ pc = "dispatch"
  /\ timer_brushless = "calibration_func"
  /\ LET s == IF MotorMoved
              THEN bldc_start_calibration
              ELSE [mainCounter |-> mainCounter, offset |-> offset,
                    pos |-> pos, handler |-> timer_brushless]
         r == CalibrationStep(s.mainCounter, s.offset)
     IN /\ mainCounter' = s.mainCounter
        /\ pos' = s.pos
        /\ offset' = r.offset
        /\ timer_brushless' = r.handler
  /\ pc' = "clear"
  /\ UNCHANGED <<OverrunFlag, cur, steps, enable, enableFin, pwml, pwmr,
                 pwm_margin, rtU_Left, rtU_Right, rtY_Left, rtY_Right,
                 z_ctrlTypSel, MOE, CCR, IDR, adc_buffer>>

\* timer_brushless() while the handler is still nullFunc (line 101)
nullFunc ==
  /\ pc = "dispatch"
  /\ timer_brushless = "nullFunc"
  /\ pc' = "clear"
  /\ UNCHANGED <<timer_brushless, OverrunFlag, mainCounter, offset, cur, pos,
                 steps, enable, enableFin, pwml, pwmr, pwm_margin, rtU_Left,
                 rtU_Right, rtY_Left, rtY_Right, z_ctrlTypSel, MOE, CCR, IDR,
                 adc_buffer>>

(***************************************************************************)
(* bldc_control (lines 218-360)                                            *)
(***************************************************************************)
\* the gate looks at the left motor's fault code only
EnableFin_LeftOnly(en, errL, errR) == IF en # 0 /\ errL = 0 THEN 1 ELSE 0

\* line 220
EnableFin(en, errL, errR) == IF en # 0 /\ errL = 0 /\ errR = 0 THEN 1 ELSE 0

\* the sample minus the offset
Current_Reversed(off, raw) == ToInt16(raw - off)

\* lines 223-225, 288-290: (int16_t)(offsetX - adc_buffer.X)
Current(off, raw) == ToInt16(off - raw)

\* the output is already cut at exactly the ceiling
OutputEnable_AtCeiling(curDC, en) == ~(ABS(curDC) >= curDC_max \/ en = 0)

\* the cutoff tests the Enable/Fault gate where the code tests enable
OutputEnable_UsesGate(curDC, en) == ~(ABS(curDC) > curDC_max \/ enableFin = 0)

\* lines 229-233, 295-299: the value the MOE bit is left with
OutputEnable(curDC, en) == ~(ABS(curDC) > curDC_max \/ en = 0)

\* lines 239-243, 307-311
PwmMargin(typ) == IF typ = "FOC_CTRL" THEN 110 ELSE 0

\* every change of sector counts, the previous sector is not consulted
PosUpdate_NoHistory(p, s, new) ==
  IF new # p[0]
  THEN [pos   |-> [i \in 0..1 |-> IF i = 1 THEN p[0] ELSE new],
        steps |-> ToUint16(s + 1)]
  ELSE [pos |-> p, steps |-> s]

\* the history is shifted only when the step is counted
PosUpdate_ShiftOnStepOnly(p, s, new) ==
  IF new # p[0] /\ new # p[1]
  THEN [pos   |-> [i \in 0..1 |-> IF i = 1 THEN p[0] ELSE new],
        steps |-> ToUint16(s + 1)]
  ELSE [pos |-> p, steps |-> s]

\* lines 250-255, 318-323: history p, step counter s, decoded sector new
PosUpdate(p, s, new) ==
  IF new # p[0]
  THEN [pos   |-> [i \in 0..1 |-> IF i = 1 THEN p[0] ELSE new],
        steps |-> IF new # p[1] THEN ToUint16(s + 1) ELSE s]
  ELSE [pos |-> p, steps |-> s]

\* the margin is applied to the lower bound only
Compare_NoUpperMargin(d, margin) ==
  ToUint16(CLAMP(d + pwm_res \div 2, margin, pwm_res))

\* the centred duty is cast without being clamped
Compare_NoClamp(d, margin) == ToUint16(d + pwm_res \div 2)

\* lines 282-284, 351-353: the value written to a compare register
Compare(d, margin) ==
  ToUint16(CLAMP(d + pwm_res \div 2, margin, pwm_res - margin))

\* lines 257-265, 326-334
InputRecord(m, gate, tgt, iAB, iBC, iDC) ==
  LET h == HallBits(m)
  IN [b_motEna |-> gate, r_inpTgt |-> ToInt16(tgt),
      b_hallA |-> h[1], b_hallB |-> h[2], b_hallC |-> h[3],
      i_phaAB |-> iAB, i_phaBC |-> iBC, i_DCLink |-> iDC]

\* the left compare registers are written before the control step, from
\* the duties of the previous tick
bldc_control_left_WriteBeforeStep(y) ==
  /\ pc = "dispatch"
  /\ timer_brushless = "bldc_control"
  /\ LET gate   == EnableFin(enable, rtY_Left.z_errCode, rtY_Right.z_errCode)
         phaA   == Current(offset["rlA"], adc_buffer["rlA"])
         phaB   == Current(offset["rlB"], adc_buffer["rlB"])
         dc     == Current(offset["dcl"], adc_buffer["dcl"])
         margin == PwmMargin(z_ctrlTypSel["L"])
         u      == PosUpdate(pos["L"], steps["L"], DecodedPos("L"))
     IN /\ enableFin' = gate
        /\ cur' = [cur EXCEPT !["L_phaA"] = phaA, !["L_phaB"] = phaB,
                              !["L_DC"] = dc]
        /\ MOE' = [MOE EXCEPT !["L"] = OutputEnable(dc, enable)]
        /\ pwm_margin' = margin
        /\ pos' = [pos EXCEPT !["L"] = u.pos]
        /\ steps' = [steps EXCEPT !["L"] = u.steps]
        /\ rtU_Left' = InputRecord("L", gate, pwml, phaA, phaB, dc)
        /\ rtY_Left' = y
        /\ CCR' = [CCR EXCEPT
                     !["LEFT_TIM_U"] = Compare(rtY_Left.DC_phaA, margin),
                     !["LEFT_TIM_V"] = Compare(rtY_Left.DC_phaB, margin),
                     !["LEFT_TIM_W"] = Compare(rtY_Left.DC_phaC, margin)]
  /\ pc' = "right"
  /\ UNCHANGED <<timer_brushless, OverrunFlag, mainCounter, offset, enable,
                 pwml, pwmr, rtU_Right, rtY_Right, z_ctrlTypSel, IDR,
                 adc_buffer>>

\* left motor section, lines 220-284; y is what BLDC_controller_step(rtM_Left)
\* leaves in rtY_Left
bldc_control_left(y) ==
  /\ pc = "dispatch"
  /\ timer_brushless = "bldc_control"
  /\ LET gate   == EnableFin(enable, rtY_Left.z_errCode, rtY_Right.z_errCode)
         phaA   == Current(offset["rlA"], adc_buffer["rlA"])
         phaB   == Current(offset["rlB"], adc_buffer["rlB"])
         dc     == Current(offset["dcl"], adc_buffer["dcl"])
         margin == PwmMargin(z_ctrlTypSel["L"])
         u      == PosUpdate(pos["L"], steps["L"], DecodedPos("L"))
     IN /\ enableFin' = gate
        /\ cur' = [cur EXCEPT !["L_phaA"] = phaA, !["L_phaB"] = phaB,
                              !["L_DC"] = dc]
        /\ MOE' = [MOE EXCEPT !["L"] = OutputEnable(dc, enable)]
        /\ pwm_margin' = margin
        /\ pos' = [pos EXCEPT !["L"] = u.pos]
        /\ steps' = [steps EXCEPT !["L"] = u.steps]
        /\ rtU_Left' = InputRecord("L", gate, pwml, phaA, phaB, dc)
        /\ rtY_Left' = y
        /\ CCR' = [CCR EXCEPT !["LEFT_TIM_U"] = Compare(y.DC_phaA, margin),
                              !["LEFT_TIM_V"] = Compare(y.DC_phaB, margin),
                              !["LEFT_TIM_W"] = Compare(y.DC_phaC, margin)]
  /\ pc' = "right"
  /\ UNCHANGED <<timer_brushless, OverrunFlag, mainCounter, offset, enable,
                 pwml, pwmr, rtU_Right, rtY_Right, z_ctrlTypSel, IDR,
                 adc_buffer>>

\* the right section computes the gate again, from the fault codes as they
\* are after the left control step
bldc_control_right_Regate(y) ==
  /\ pc = "right"
  /\ LET gate   == EnableFin(enable, rtY_Left.z_errCode, rtY_Right.z_errCode)
         phaB   == Current(offset["rrB"], adc_buffer["rrB"])
         phaC   == Current(offset["rrC"], adc_buffer["rrC"])
         dc     == Current(offset["dcr"], adc_buffer["dcr"])
         margin == PwmMargin(z_ctrlTypSel["R"])
         u      == PosUpdate(pos["R"], steps["R"], DecodedPos("R"))
     IN /\ enableFin' = gate
        /\ cur' = [cur EXCEPT !["R_phaB"] = phaB, !["R_phaC"] = phaC,
                              !["R_DC"] = dc]
        /\ MOE' = [MOE EXCEPT !["R"] = OutputEnable(dc, enable)]
        /\ pwm_margin' = margin
        /\ pos' = [pos EXCEPT !["R"] = u.pos]
        /\ steps' = [steps EXCEPT !["R"] = u.steps]
        /\ rtU_Right' = InputRecord("R", gate, pwmr, phaB, phaC, dc)
        /\ rtY_Right' = y
        /\ CCR' = [CCR EXCEPT !["RIGHT_TIM_U"] = Compare(y.DC_phaA, margin),
                              !["RIGHT_TIM_V"] = Compare(y.DC_phaB, margin),
                              !["RIGHT_TIM_W"] = Compare(y.DC_phaC, margin)]
  /\ pc' = "clear"
  /\ UNCHANGED <<timer_brushless, OverrunFlag, mainCounter, offset, enable,
                 pwml, pwmr, rtU_Left, rtY_Left, z_ctrlTypSel, IDR,
                 adc_buffer>>

\* right motor section, lines 288-353
bldc_control_right(y) ==
  /\ pc = "right"
  /\ LET phaB   == Current(offset["rrB"], adc_buffer["rrB"])
         phaC   == Current(offset["rrC"], adc_buffer["rrC"])
         dc     == Current(offset["dcr"], adc_buffer["dcr"])
         margin == PwmMargin(z_ctrlTypSel["R"])
         u      == PosUpdate(pos["R"], steps["R"], DecodedPos("R"))
     IN /\ cur' = [cur EXCEPT !["R_phaB"] = phaB, !["R_phaC"] = phaC,
                              !["R_DC"] = dc]
        /\ MOE' = [MOE EXCEPT !["R"] = OutputEnable(dc, enable)]
        /\ pwm_margin' = margin
        /\ pos' = [pos EXCEPT !["R"] = u.pos]
        /\ steps' = [steps EXCEPT !["R"] = u.steps]
        /\ rtU_Right' = InputRecord("R", enableFin, pwmr, phaB, phaC, dc)
        /\ rtY_Right' = y
        /\ CCR' = [CCR EXCEPT !["RIGHT_TIM_U"] = Compare(y.DC_phaA, margin),
                              !["RIGHT_TIM_V"] = Compare(y.DC_phaB, margin),
                              !["RIGHT_TIM_W"] = Compare(y.DC_phaC, margin)]
  /\ pc' = "clear"
  /\ UNCHANGED <<timer_brushless, OverrunFlag, mainCounter, offset, enable,
                 enableFin, pwml, pwmr, rtU_Left, rtY_Left, z_ctrlTypSel, IDR,
                 adc_buffer>>

(***************************************************************************)
(* DMA1_Channel1_IRQHandler (lines 176-188)                                *)
(***************************************************************************)
\* the increment moved behind the overrun check, into the wrong branch
DMA1_Channel1_IRQHandler_CountDropped(sample) ==
  /\ mainCounter < MaxCounter
  /\ \A m \in Motors : steps[m] < MaxSteps
  /\ adc_buffer' = sample
  /\ IF OverrunFlag
     THEN /\ mainCounter' = mainCounter + 1
          /\ UNCHANGED <<OverrunFlag, pc>>
     ELSE /\ mainCounter' = mainCounter
          /\ OverrunFlag' = TRUE
          /\ pc' = "dispatch"
  /\ UNCHANGED <<timer_brushless, offset, cur, pos, steps, enable, enableFin,
                 pwml, pwmr, pwm_margin, rtU_Left, rtU_Right, rtY_Left,
                 rtY_Right, z_ctrlTypSel, MOE, CCR, IDR>>

\* the overrun check left out: every invocation dispatches
DMA1_Channel1_IRQHandler_NoGuard(sample) ==
  /\ mainCounter < MaxCounter
  /\ \A m \in Motors : steps[m] < MaxSteps
  /\ adc_buffer' = sample
  /\ mainCounter' = mainCounter + 1
  /\ OverrunFlag' = TRUE
  /\ pc' = "dispatch"
  /\ UNCHANGED <<timer_brushless, offset, cur, pos, steps, enable, enableFin,
                 pwml, pwmr, pwm_margin, rtU_Left, rtU_Right, rtY_Left,
                 rtY_Right, z_ctrlTypSel, MOE, CCR, IDR>>

\* Entry of an invocation, lines 177-184.  sample is the batch the DMA has
\* just stored in adc_buffer, the transfer whose completion raises the
\* interrupt.
DMA1_Channel1_IRQHandler(sample) ==
  /\ mainCounter < MaxCounter
  /\ \A m \in Motors : steps[m] < MaxSteps
  /\ adc_buffer' = sample
  /\ mainCounter' = mainCounter + 1
  /\ IF OverrunFlag
     THEN UNCHANGED <<OverrunFlag, pc>>
     ELSE /\ OverrunFlag' = TRUE
          /\ pc' = "dispatch"
  /\ UNCHANGED <<timer_brushless, offset, cur, pos, steps, enable, enableFin,
                 pwml, pwmr, pwm_margin, rtU_Left, rtU_Right, rtY_Left,
                 rtY_Right, z_ctrlTypSel, MOE, CCR, IDR>>

\* the handler returns and the guard stays set
IRQ_return_FlagKept ==
  /\ pc = "clear"
  /\ pc' = "idle"
  /\ UNCHANGED <<timer_brushless, OverrunFlag, mainCounter, offset, cur, pos,
                 steps, enable, enableFin, pwml, pwmr, pwm_margin, rtU_Left,
                 rtU_Right, rtY_Left, rtY_Right, z_ctrlTypSel, MOE, CCR, IDR,
                 adc_buffer>>

\* line 187, after timer_brushless() has returned
IRQ_return ==
  /\ pc = "clear"
  /\ OverrunFlag' = FALSE
  /\ pc' = "idle"
  /\ UNCHANGED <<timer_brushless, mainCounter, offset, cur, pos, steps, enable,
                 enableFin, pwml, pwmr, pwm_margin, rtU_Left, rtU_Right,
                 rtY_Left, rtY_Right, z_ctrlTypSel, MOE, CCR, IDR, adc_buffer>>

(***************************************************************************)
(* Environment: hall pins, main program                                    *)
(***************************************************************************)
\* the hall pins of motor m change to the levels h
HallChange(m, h) ==
  /\ h # IDR[m]
  /\ IDR' = [IDR EXCEPT ![m] = h]
  /\ UNCHANGED <<timer_brushless, OverrunFlag, mainCounter, offset, cur, pos,
                 steps, enable, enableFin, pwml, pwmr, pwm_margin, rtU_Left,
                 rtU_Right, rtY_Left, rtY_Right, z_ctrlTypSel, MOE, CCR,
                 adc_buffer, pc>>

\* the main program writes the administrative enable
SetEnable(e) ==
  /\ pc = "idle"
  /\ e # enable
  /\ enable' = e
  /\ UNCHANGED <<timer_brushless, OverrunFlag, mainCounter, offset, cur, pos,
                 steps, enableFin, pwml, pwmr, pwm_margin, rtU_Left, rtU_Right,
                 rtY_Left, rtY_Right, z_ctrlTypSel, MOE, CCR, IDR, adc_buffer,
                 pc>>

\* the main program writes the two requested targets
SetTargets(l, r) ==
  /\ pc = "idle"
  /\ <<l, r>> # <<pwml, pwmr>>
  /\ pwml' = l
  /\ pwmr' = r
  /\ UNCHANGED <<timer_brushless, OverrunFlag, mainCounter, offset, cur, pos,
                 steps, enable, enableFin, pwm_margin, rtU_Left, rtU_Right,
                 rtY_Left, rtY_Right, z_ctrlTypSel, MOE, CCR, IDR, adc_buffer,
                 pc>>

(***************************************************************************)
(* Initial state: the static initialisers of bldc.c, timers not yet        *)
(* enabled, handler still nullFunc                                         *)
(***************************************************************************)
\* pin levels of the hall lines; a low pin is a hall bit of 1
AllHalls == {<<a, b, c>> : a \in Bit, b \in Bit, c \in Bit}

\* pins read 1,1,0: hall bits 0,0,1
HallRest == <<1, 1, 0>>

ZeroInput == [b_motEna |-> 0, r_inpTgt |-> 0, b_hallA |-> 0, b_hallB |-> 0,
              b_hallC |-> 0, i_phaAB |-> 0, i_phaBC |-> 0, i_DCLink |-> 0]

StepOutput(a, b, c, e) ==
  [DC_phaA |-> a, DC_phaB |-> b, DC_phaC |-> c, z_errCode |-> e]

ZeroOutput == StepOutput(0, 0, 0, 0)

Sample(rlA, rlB, rrB, rrC, dcl, dcr) ==
  [rlA |-> rlA, rlB |-> rlB, rrB |-> rrB, rrC |-> rrC, dcl |-> dcl, dcr |-> dcr]

\* every channel reads v
Uniform(v) == Sample(v, v, v, v, v, v)

InitWith(typs, samples) ==
  /\ timer_brushless = "nullFunc"
  /\ OverrunFlag = FALSE
  /\ mainCounter = 0
  /\ offset = ZeroOffsets
  /\ cur = [L_phaA |-> 0, L_phaB |-> 0, L_DC |-> 0,
            R_phaB |-> 0, R_phaC |-> 0, R_DC |-> 0]
  /\ pos = [m \in Motors |-> [i \in 0..1 |-> 0]]
  /\ steps = [m \in Motors |-> 0]
  /\ enable = 0
  /\ enableFin = 0
  /\ pwml = 0
  /\ pwmr = 0
  /\ pwm_margin = 0
  /\ rtU_Left = ZeroInput
  /\ rtU_Right = ZeroInput
  /\ rtY_Left = ZeroOutput
  /\ rtY_Right = ZeroOutput
  /\ z_ctrlTypSel \in [Motors -> typs]
  /\ MOE = [m \in Motors |-> FALSE]
  /\ CCR = [r \in {"LEFT_TIM_U", "LEFT_TIM_V", "LEFT_TIM_W",
                   "RIGHT_TIM_U", "RIGHT_TIM_V", "RIGHT_TIM_W"} |-> 0]
  /\ IDR = [m \in Motors |-> HallRest]
  /\ adc_buffer \in samples
  /\ pc = "idle"

(***************************************************************************)
(* Steps of the handler as seen on a pair of states                        *)
(***************************************************************************)
\* the left / right motor section of a dispatched run-time tick
LeftSection ==
  pc = "dispatch" /\ timer_brushless = "bldc_control" /\ pc' = "right"

RightSection == pc = "right" /\ pc' = "clear"

\* the bias the current sensors read with no current flowing
Bias == 2000

(***************************************************************************)
(* Spec: the whole life cycle with overruns, calibration restarts, moving  *)
(* motors, faults and over-current.  The main program starts calibration   *)
(* before the run-time phase is reached.                                   *)
(***************************************************************************)
GenSamples ==
  {Uniform(Bias),
   Sample(Bias + 3, Bias, Bias + 6, Bias, Bias - curDC_max - 50, Bias + 9)}

GenOutputs == {ZeroOutput, StepOutput(300, -1200, 1000, 1)}

GenHalls == {HallRest, <<1, 0, 0>>}

Init == InitWith({"FOC_CTRL"}, {Uniform(0)})

Next ==
  \/ timer_brushless # "bldc_control" /\ Main_bldc_start_calibration
  \/ \E a \in GenSamples : DMA1_Channel1_IRQHandler(a)
  \/ nullFunc
  \/ calibration_func
  \/ \E y \in GenOutputs : bldc_control_left(y)
  \/ \E y \in GenOutputs : bldc_control_right(y)
  \/ IRQ_return
  \/ \E m \in Motors, h \in GenHalls : HallChange(m, h)
  \/ \E e \in Bit : SetEnable(e)

Spec == Init /\ [][Next]_vars

(***************************************************************************)
(* SpecConst: every tick delivers the same samples, the motors stand       *)
(* still, no invocation overlaps another.  The main program may start      *)
(* calibration again at any time.                                          *)
(***************************************************************************)
ConstSamples ==
  {Uniform(v) : v \in {0, 1, CALIBRATION_SAMPLES, Bias, 4095}}
    \cup {Sample(Bias - 7, Bias + 1, Bias + 12, Bias - 2, Bias + 30, Bias - 41)}

InitConst == InitWith({"FOC_CTRL"}, ConstSamples)

NextConst ==
  \/ Main_bldc_start_calibration
  \/ pc = "idle" /\ DMA1_Channel1_IRQHandler(adc_buffer)
  \/ nullFunc
  \/ calibration_func
  \/ \E y \in GenOutputs : bldc_control_left(y)
  \/ \E y \in GenOutputs : bldc_control_right(y)
  \/ IRQ_return
  \/ \E e \in Bit : SetEnable(e)

SpecConst == InitConst /\ [][NextConst]_vars

(***************************************************************************)
(* SpecMotion: as SpecConst, and the hall pins may change at any time      *)
(***************************************************************************)
NextMotion ==
  \/ timer_brushless # "bldc_control" /\ Main_bldc_start_calibration
  \/ pc = "idle" /\ DMA1_Channel1_IRQHandler(adc_buffer)
  \/ nullFunc
  \/ calibration_func
  \/ bldc_control_left(ZeroOutput)
  \/ bldc_control_right(ZeroOutput)
  \/ IRQ_return
  \/ \E m \in Motors, h \in GenHalls : HallChange(m, h)

SpecMotion == InitConst /\ [][NextMotion]_vars

(***************************************************************************)
(* Overrun guard and tick counter                                          *)
(***************************************************************************)
\* C4: an invocation of DMA1_Channel1_IRQHandler that finds OverrunFlag set
\* (the only step that adds one to mainCounter while the flag is set) does
\* not dispatch the per-tick handler and changes none of: the six offsets,
\* pos, steps, enableFin, the input records, the handler binding, the six
\* compare registers, the two output-enable bits.
C4_OverrunNoMutation ==
  [][(OverrunFlag /\ mainCounter' = mainCounter + 1)
       => /\ pc' = pc
          /\ OverrunFlag'
          /\ UNCHANGED <<offset, pos, steps, enableFin, rtU_Left, rtU_Right,
                         timer_brushless, CCR, MOE>>]_vars

\* two invocations since calibration started and no sample accumulated yet:
\* the second one was dropped
C4_Witness ==
  /\ OverrunFlag
  /\ pc = "dispatch"
  /\ timer_brushless = "calibration_func"
  /\ offset = ZeroOffsets
  /\ mainCounter >= 2

\* C9 as stated: no step of an invocation of the interrupt handler lowers
\* mainCounter, every invocation leaves it one greater.
C9_Original ==
  [][(pc # "idle" \/ pc' # "idle") => mainCounter' >= mainCounter]_vars

\* C9 amended: the entry of every invocation adds exactly one to mainCounter;
\* mainCounter changes in no other way than by such an increment or by a
\* reset to 0 in bldc_start_calibration, which is called by the main program
\* or by calibration_func on a tick where a motor's sector differs from its
\* baseline; the run-time tick, nullFunc and the return never change it.
C9_CounterRule ==
  [][/\ (pc = "idle" /\ pc' = "dispatch") => mainCounter' = mainCounter + 1
     /\ (mainCounter' # mainCounter)
          => \/ /\ mainCounter' = mainCounter + 1
                /\ pc' = IF OverrunFlag THEN pc ELSE "dispatch"
             \/ /\ mainCounter' = 0
                /\ timer_brushless' = "calibration_func"
                /\ \/ pc = "idle"
                   \/ /\ pc = "dispatch"
                      /\ timer_brushless = "calibration_func"
                      /\ MotorMoved
     /\ (pc = "dispatch" /\ pc' = "clear")
          => mainCounter' = IF timer_brushless = "calibration_func" /\ MotorMoved
                            THEN 0 ELSE mainCounter]_vars

\* a calibration tick has restarted the calibration
C9_Witness ==
  /\ pc = "clear"
  /\ timer_brushless = "calibration_func"
  /\ mainCounter = 0
  /\ offset # ZeroOffsets

(***************************************************************************)
(* Calibration                                                             *)
(***************************************************************************)
\* C5: with constant samples, no sector change and no overrun, every
\* completed calibration tick has added one sample per channel (the
\* accumulators hold mainCounter times the sample), the handler becomes
\* bldc_control on the tick dispatched with mainCounter = CALIBRATION_SAMPLES,
\* and from then on each offset equals its channel's constant sample.
C5_ExactCalibration ==
  /\ [](/\ (timer_brushless = "calibration_func" /\ pc \in {"idle", "clear"})
             => /\ mainCounter < CALIBRATION_SAMPLES
                /\ \A c \in Channels : offset[c] = mainCounter * adc_buffer[c]
        /\ (timer_brushless = "bldc_control")
             => \A c \in Channels : offset[c] = adc_buffer[c])
  /\ [][(timer_brushless # "bldc_control" /\ timer_brushless' = "bldc_control")
          => /\ pc = "dispatch"
             /\ mainCounter = CALIBRATION_SAMPLES
             /\ mainCounter' = mainCounter]_vars

\* the hand-over tick with every channel reading the bias
C5_Witness ==
  /\ timer_brushless = "bldc_control"
  /\ pc = "clear"
  /\ mainCounter = CALIBRATION_SAMPLES
  /\ adc_buffer = Uniform(Bias)
  /\ \A c \in Channels : offset[c] = Bias

\* C6: with constant samples and no overrun, also when sector changes have
\* restarted the calibration, each finalized offset equals its channel's
\* constant sample.
C6_RestartAverage ==
  timer_brushless = "bldc_control"
    => \A c \in Channels : offset[c] = adc_buffer[c]

(***************************************************************************)
(* SpecGate: calibration started once by the main program, with every      *)
(* channel at the bias; then run-time ticks with over-current, fault       *)
(* codes, enable and target changes and overruns; motors at rest           *)
(***************************************************************************)
\* run-time samples around the ceiling, per motor: at it, beyond it, below it
GateSamples ==
  {Uniform(Bias),
   Sample(Bias + 1, Bias - 1, Bias + 2, Bias - 2,
          Bias - curDC_max, Bias - curDC_max - 1),
   Sample(Bias - 5, Bias + 5, Bias - 6, Bias + 6,
          Bias + curDC_max + 1, Bias + curDC_max),
   Sample(Bias, Bias + 8, Bias, Bias - 8,
          Bias - curDC_max + 1, Bias + curDC_max - 1)}

GateOutputs == {ZeroOutput, StepOutput(100, -100, 0, 4)}

NextGate ==
  \/ timer_brushless # "bldc_control" /\ Main_bldc_start_calibration
  \/ \E a \in (IF timer_brushless = "bldc_control"
               THEN GateSamples ELSE {Uniform(Bias)}) :
        DMA1_Channel1_IRQHandler(a)
  \/ nullFunc
  \/ calibration_func
  \/ \E y \in GateOutputs : bldc_control_left(y)
  \/ \E y \in GateOutputs : bldc_control_right(y)
  \/ IRQ_return
  \/ \E e \in Bit : SetEnable(e)
  \/ \E t \in {<<0, 0>>, <<500, -300>>} : SetTargets(t[1], t[2])

SpecGate == Init /\ [][NextGate]_vars

\* C1: in a dispatched run-time tick, a non-zero fault code left in rtY_Left
\* or rtY_Right by the previous tick makes the gate and the left enable input
\* 0 in the left section; the gate is not touched until the right section,
\* which hands that gate to the right enable input.  Whatever enable is.
C1_FaultGate ==
  [][/\ LeftSection
          => /\ (rtY_Left.z_errCode # 0 \/ rtY_Right.z_errCode # 0)
                   => (enableFin' = 0 /\ rtU_Left'.b_motEna = 0)
             /\ rtU_Left'.b_motEna = enableFin'
     /\ (pc = "right") => enableFin' = enableFin
     /\ RightSection => rtU_Right'.b_motEna = enableFin]_vars

\* end of a tick that ran with enable = 1 and still gave both motors 0
C1_Witness ==
  /\ pc = "clear"
  /\ timer_brushless = "bldc_control"
  /\ enable = 1
  /\ enableFin = 0
  /\ rtU_Left.b_motEna = 0
  /\ rtU_Right.b_motEna = 0
  /\ rtY_Left.z_errCode = 0
  /\ rtY_Right.z_errCode = 0

\* what the claim says of the output-enable bit b for DC-link current c
GateRule(c, b) ==
  /\ (c > curDC_max \/ c < -curDC_max) => ~b
  /\ (-curDC_max < c /\ c < curDC_max /\ enable # 0) => b
  /\ ((c = curDC_max \/ c = -curDC_max) /\ enable # 0) => b
  /\ (enable = 0) => ~b

\* C2: each section of a run-time tick leaves its motor's MOE bit cleared
\* when |offset - sample| of the DC-link channel exceeds curDC_max or enable
\* is 0, and set otherwise (also at exactly curDC_max); the other motor's bit
\* is not touched, and no other step changes the bits.
C2_CurrentGate ==
  [][/\ LeftSection
          => /\ GateRule(offset["dcl"] - adc_buffer["dcl"], MOE'["L"])
             /\ MOE'["R"] = MOE["R"]
     /\ RightSection
          => /\ GateRule(offset["dcr"] - adc_buffer["dcr"], MOE'["R"])
             /\ MOE'["L"] = MOE["L"]
     /\ (~LeftSection /\ ~RightSection) => MOE' = MOE]_vars

\* left motor exactly at the ceiling and enabled, right motor beyond it
C2_Witness ==
  /\ pc = "clear"
  /\ enable = 1
  /\ offset["dcl"] - adc_buffer["dcl"] = curDC_max
  /\ offset["dcr"] - adc_buffer["dcr"] = curDC_max + 1
  /\ cur["L_DC"] = curDC_max
  /\ MOE["L"]
  /\ ~MOE["R"]

(***************************************************************************)
(* SpecPwm: every pair of control types, duty outputs over the whole       *)
(* int16 range; constant samples, motors at rest, no overlapping           *)
(* invocation                                                              *)
(***************************************************************************)
PwmOutputs ==
  {StepOutput(-32768, -891, -890, 0), StepOutput(-889, 0, 889, 0),
   StepOutput(890, 891, 32767, 0), StepOutput(-1001, -1000, -999, 0),
   StepOutput(999, 1000, 1001, 0)}

InitPwm == InitWith({"FOC_CTRL", "COM_CTRL"}, {Uniform(0)})

NextPwm ==
  \/ timer_brushless # "bldc_control" /\ Main_bldc_start_calibration
  \/ pc = "idle" /\ DMA1_Channel1_IRQHandler(Uniform(Bias))
  \/ nullFunc
  \/ calibration_func
  \/ \E y \in PwmOutputs : bldc_control_left(y)
  \/ \E y \in PwmOutputs : bldc_control_right(y)
  \/ IRQ_return

SpecPwm == InitPwm /\ [][NextPwm]_vars

\* the margin the claim names for motor m
ClaimedMargin(m) == IF z_ctrlTypSel[m] = "FOC_CTRL" THEN 110 ELSE 0

\* v is duty d centred and clamped to [lo, hi]
IsClamped(v, d, lo, hi) ==
  LET c == d + pwm_res \div 2
  IN /\ lo <= v /\ v <= hi
     /\ (lo <= c /\ c <= hi) => v = c
     /\ (c < lo) => v = lo
     /\ (c > hi) => v = hi

\* C3: each section of a run-time tick writes to its motor's three compare
\* registers the duty outputs of that motor's control step, centred by
\* pwm_res/2 and clamped to [m, pwm_res - m], m = 110 for FOC and 0 otherwise.
C3_PwmClamp ==
  [][/\ LeftSection
          => LET m == ClaimedMargin("L")
             IN /\ IsClamped(CCR'["LEFT_TIM_U"], rtY_Left'.DC_phaA, m, pwm_res - m)
                /\ IsClamped(CCR'["LEFT_TIM_V"], rtY_Left'.DC_phaB, m, pwm_res - m)
                /\ IsClamped(CCR'["LEFT_TIM_W"], rtY_Left'.DC_phaC, m, pwm_res - m)
     /\ RightSection
          => LET m == ClaimedMargin("R")
             IN /\ IsClamped(CCR'["RIGHT_TIM_U"], rtY_Right'.DC_phaA, m, pwm_res - m)
                /\ IsClamped(CCR'["RIGHT_TIM_V"], rtY_Right'.DC_phaB, m, pwm_res - m)
                /\ IsClamped(CCR'["RIGHT_TIM_W"], rtY_Right'.DC_phaC, m, pwm_res - m)]_vars

\* FOC motor: clamped at the upper bound and passed through at the edge;
\* the other motor clamped at 0
C3_Witness ==
  /\ pc = "clear"
  /\ z_ctrlTypSel = [L |-> "FOC_CTRL", R |-> "COM_CTRL"]
  /\ rtY_Left = StepOutput(890, 891, 32767, 0)
  /\ CCR["LEFT_TIM_U"] = 1890
  /\ CCR["LEFT_TIM_V"] = 1890
  /\ CCR["LEFT_TIM_W"] = 1890
  /\ rtY_Right = StepOutput(-1001, -1000, -999, 0)
  /\ CCR["RIGHT_TIM_U"] = 0
  /\ CCR["RIGHT_TIM_W"] = 1

RegsOf(m) ==
  IF m = "L" THEN {"LEFT_TIM_U", "LEFT_TIM_V", "LEFT_TIM_W"}
  ELSE {"RIGHT_TIM_U", "RIGHT_TIM_V", "RIGHT_TIM_W"}

\* C10 as stated: every compare register holds a value in [0, pwm_res).
C10_Original ==
  \A m \in Motors : \A r \in RegsOf(m) : 0 <= CCR[r] /\ CCR[r] < pwm_res

\* C10 amended: every compare register holds a value in [0, pwm_res], the
\* period included; it is below pwm_res for a motor under FOC, and equals
\* pwm_res only for a motor with margin 0 whose last duty outputs reach
\* pwm_res/2.
C10_RegisterRange ==
  \A m \in Motors : \A r \in RegsOf(m) :
    /\ 0 <= CCR[r] /\ CCR[r] <= pwm_res
    /\ (z_ctrlTypSel[m] = "FOC_CTRL") => CCR[r] <= pwm_res - 110
    /\ (CCR[r] = pwm_res)
         => LET y == IF m = "L" THEN rtY_Left ELSE rtY_Right
            IN \E d \in {y.DC_phaA, y.DC_phaB, y.DC_phaC} : d >= pwm_res \div 2

\* a register of a motor without margin holds the period itself
C10_Witness ==
  /\ z_ctrlTypSel["R"] = "COM_CTRL"
  /\ rtY_Right.DC_phaB = 1000
  /\ CCR["RIGHT_TIM_V"] = pwm_res
  /\ CCR["RIGHT_TIM_W"] = pwm_res

(***************************************************************************)
(* SpecPos: the hall pins change at any time, also during calibration and  *)
(* inside a tick; constant samples, no overlapping invocation              *)
(***************************************************************************)
\* the left motor sees every pattern, the right motor three of them
PosHalls(m) ==
  IF m = "L" THEN AllHalls ELSE {HallRest, <<1, 0, 0>>, <<0, 0, 0>>}

NextPos ==
  \/ timer_brushless # "bldc_control" /\ Main_bldc_start_calibration
  \/ pc = "idle" /\ DMA1_Channel1_IRQHandler(Uniform(Bias))
  \/ nullFunc
  \/ calibration_func
  \/ bldc_control_left(ZeroOutput)
  \/ bldc_control_right(ZeroOutput)
  \/ IRQ_return
  \/ \E m \in Motors : \E h \in PosHalls(m) : HallChange(m, h)

SpecPos == Init /\ [][NextPos]_vars

\* C7 as stated: every stored sector is one of 0..5.
C7_Original == \A m \in Motors : \A i \in 0..1 : pos[m][i] \in 0..5

\* C7 amended: for all eight hall patterns the lookup is defined and returns
\* a value in 0..6: one of 0..5 for the six patterns with mixed bits, and 6
\* for the two patterns 000 and 111; every stored sector is in 0..6, and the
\* sector decoded from the pins is 6 exactly when the three pins agree.
C7_DecoderRange ==
  /\ \A u \in Bit, v \in Bit, w \in Bit :
       /\ Hall2Pos(u, v, w) \in 0..6
       /\ (Hall2Pos(u, v, w) = 6) <=> (u = v /\ v = w)
  /\ \A m \in Motors : \A i \in 0..1 : pos[m][i] \in 0..6
  /\ \A m \in Motors :
       (DecodedPos(m) = 6) <=> (IDR[m][1] = IDR[m][2] /\ IDR[m][2] = IDR[m][3])

\* the reserved value stored by a run-time tick, next to a regular sector
C7_Witness ==
  /\ timer_brushless = "bldc_control"
  /\ pc = "clear"
  /\ pos["L"][0] = 6
  /\ pos["L"][1] \in 0..5
  /\ rtU_Left.b_hallA = 1 /\ rtU_Left.b_hallB = 1 /\ rtU_Left.b_hallC = 1

\* C8: the left (right) section of a run-time tick adds one to steps of its
\* motor exactly when the sector decoded from the pins differs from both
\* stored sectors, and leaves the other motor's counter alone; no other step
\* (calibration, dropped invocation, return, main program) changes steps.
C8_StepCounter ==
  [][/\ LeftSection
          => /\ steps'["L"] = IF /\ DecodedPos("L") # pos["L"][0]
                                 /\ DecodedPos("L") # pos["L"][1]
                              THEN steps["L"] + 1 ELSE steps["L"]
             /\ steps'["R"] = steps["R"]
     /\ RightSection
          => /\ steps'["R"] = IF /\ DecodedPos("R") # pos["R"][0]
                                 /\ DecodedPos("R") # pos["R"][1]
                              THEN steps["R"] + 1 ELSE steps["R"]
             /\ steps'["L"] = steps["L"]
     /\ (~LeftSection /\ ~RightSection) => steps' = steps]_vars

\* the left motor has gone to a new sector and back: one step, two shifts
C8_Witness ==
  /\ pc = "clear"
  /\ steps["L"] = 1
  /\ steps["R"] = 0
  /\ pos["L"][0] = 2
  /\ pos["L"][1] # 2

(***************************************************************************)
(* SpecHandoff: every channel reads the bias; the main program may start   *)
(* calibration at any time, also in the run-time phase; invocations may    *)
(* overlap and the hall pins may change at any time                        *)
(***************************************************************************)
NextHandoff ==
  \/ Main_bldc_start_calibration
  \/ DMA1_Channel1_IRQHandler(Uniform(Bias))
  \/ nullFunc
  \/ calibration_func
  \/ bldc_control_left(ZeroOutput)
  \/ bldc_control_right(ZeroOutput)
  \/ IRQ_return
  \/ \E m \in Motors, h \in GenHalls : HallChange(m, h)

SpecHandoff == Init /\ [][NextHandoff]_vars

\* the main program's call of bldc_start_calibration in the run-time phase:
\* the only step outside the interrupt that binds calibration_func
ExternalStart ==
  pc = "idle" /\ pc' = "idle" /\ timer_brushless' = "calibration_func"

\* C11: the six accumulators are divided by CALIBRATION_SAMPLES in the step
\* that binds bldc_control and in no other calibration step (those leave an
\* accumulator alone, zero it, or add a sample to it or to zero); once
\* bldc_control is bound, no step other than the main program's call of
\* bldc_start_calibration changes an offset or the binding, whatever the
\* hall pins do.
C11_HandoffPermanent ==
  [][/\ (timer_brushless # "bldc_control" /\ timer_brushless' = "bldc_control")
          => /\ pc = "dispatch"
             /\ timer_brushless = "calibration_func"
             /\ \A c \in Channels :
                   offset'[c] = (offset[c] + adc_buffer[c]) \div CALIBRATION_SAMPLES
     /\ (timer_brushless # "bldc_control" /\ timer_brushless' # "bldc_control")
          => \A c \in Channels :
               offset'[c] \in {offset[c], 0, offset[c] + adc_buffer[c],
                               adc_buffer[c]}
     /\ (timer_brushless = "bldc_control" /\ ~ExternalStart)
          => /\ timer_brushless' = "bldc_control"
             /\ offset' = offset]_vars

\* a run-time tick has seen the left motor in a new sector and the offsets
\* are still the averages of the hand-over
C11_Witness ==
  /\ timer_brushless = "bldc_control"
  /\ pc = "clear"
  /\ steps["L"] >= 1
  /\ pos["L"][0] # pos["L"][1]
  /\ \A c \in Channels : offset[c] = Bias

(***************************************************************************)
(* One handler at a time                                                   *)
(***************************************************************************)
\* C12: while the per-tick handler is in progress OverrunFlag is set; the
\* handler is started only by an invocation that arrives with no handler in
\* progress and finds the flag clear, it then runs through its sections
\* once and returns; no other step moves the handler, so an invocation
\* that found the flag set starts nothing, neither at once nor later.
C12_SingleInFlight ==
  /\ [](pc # "idle" => OverrunFlag)
  /\ [][pc' # pc
          => \/ /\ pc = "idle"
                /\ pc' = "dispatch"
                /\ ~OverrunFlag
                /\ mainCounter' = mainCounter + 1
             \/ pc = "dispatch" /\ pc' \in {"right", "clear"}
             \/ pc = "right" /\ pc' = "clear"
             \/ pc = "clear" /\ pc' = "idle"]_vars

\* a run-time tick between its two sections, and the samples have been
\* replaced since the left section read them: an invocation arrived and
\* was dropped while the handler was in progress
C12_Witness ==
  /\ pc = "right"
  /\ OverrunFlag
  /\ timer_brushless = "bldc_control"
  /\ cur["L_DC"] # ToInt16(offset["dcl"] - adc_buffer["dcl"])

(***************************************************************************)
(* One gate for both motors                                                *)
(***************************************************************************)
\* C13: the gate is written by the left section only, once per run-time
\* tick, from enable and the two fault codes the previous tick left behind;
\* the right section hands the right motor the enable input the left motor
\* got in this tick, whatever fault code the left control step has raised
\* in between; so outside the two sections both enable inputs are equal,
\* and a fault code raised in one tick makes both 0 in the next.
C13_SharedGate ==
  /\ [](pc # "right" => rtU_Left.b_motEna = rtU_Right.b_motEna)
  /\ [][/\ (enableFin' # enableFin) => LeftSection
        /\ LeftSection
             => /\ enableFin' = IF /\ enable # 0
                                   /\ rtY_Left.z_errCode = 0
                                   /\ rtY_Right.z_errCode = 0
                                THEN 1 ELSE 0
                /\ rtU_Left'.b_motEna = enableFin'
        /\ RightSection
             => /\ rtU_Right'.b_motEna = rtU_Left.b_motEna
                /\ rtU_Left' = rtU_Left]_vars

\* end of a tick whose left control step raised a fault code: both motors
\* still got an enable input of 1
C13_Witness ==
  /\ pc = "clear"
  /\ timer_brushless = "bldc_control"
  /\ rtY_Left.z_errCode # 0
  /\ rtY_Right.z_errCode = 0
  /\ rtU_Left.b_motEna = 1
  /\ rtU_Right.b_motEna = 1

(***************************************************************************)
(* The current cutoff keeps no memory                                      *)
(***************************************************************************)
\* C14: the MOE bit a section of a run-time tick leaves behind is decided
\* by that tick's DC-link current and enable alone: set exactly when the
\* magnitude is within curDC_max and enable is non-zero, whatever the bit
\* was before (a bit cleared by an earlier over-current is set again) and
\* whatever the fault codes and the Enable/Fault gate are.
C14_CutoffNotLatched ==
  [][/\ LeftSection
          => LET c == ToInt16(offset["dcl"] - adc_buffer["dcl"])
             IN MOE'["L"] = (-curDC_max <= c /\ c <= curDC_max /\ enable # 0)
     /\ RightSection
          => LET c == ToInt16(offset["dcr"] - adc_buffer["dcr"])
             IN MOE'["R"] = (-curDC_max <= c /\ c <= curDC_max /\ enable # 0)]_vars

\* between the sections of a tick gated off by a fault code: the left
\* output has been enabled all the same, and the right output, cut by the
\* previous tick's over-current, is about to be enabled again
C14_Witness ==
  /\ pc = "right"
  /\ enable = 1
  /\ enableFin = 0
  /\ rtY_Right.z_errCode # 0
  /\ MOE["L"]
  /\ ~MOE["R"]
  /\ cur["R_DC"] > curDC_max
  /\ offset["dcr"] - adc_buffer["dcr"] < curDC_max
  /\ adc_buffer["dcr"] - offset["dcr"] < curDC_max

(***************************************************************************)
(* Bounce rejection                                                        *)
(***************************************************************************)
\* what a section does for motor m, by the sector it decodes
BounceRule(m) ==
  LET new == DecodedPos(m)
      p   == pos[m]
  IN /\ pos'[m] = IF new # p[0]
                  THEN [i \in 0..1 |-> IF i = 0 THEN new ELSE p[0]]
                  ELSE p
     /\ (new \in {p[0], p[1]})
          => /\ steps'[m] = steps[m]
             /\ {pos'[m][0], pos'[m][1]} = {p[0], p[1]}
     /\ (new \notin {p[0], p[1]})
          => /\ steps'[m] = steps[m] + 1
             /\ pos'[m][0] = new
             /\ pos'[m][1] = p[0]

\* C15: a section of a run-time tick shifts its motor's history exactly
\* when the decoded sector differs from the current slot.  A tick that
\* decodes one of the two stored sectors leaves steps alone and leaves the
\* same two sectors stored, so a motor alternating between them is never
\* counted, however long it does so; a tick that decodes a sector stored in
\* neither slot adds one to steps and stores it as current, so each of
\* three distinct sectors visited in a row is counted.
C15_BounceRejection ==
  [][/\ LeftSection => BounceRule("L")
     /\ RightSection => BounceRule("R")]_vars

\* the left motor has left the sector of the calibration for a second and
\* then a third sector: two steps counted
C15_Witness ==
  /\ pc = "clear"
  /\ steps["L"] = 2
  /\ pos["L"][0] # pos["L"][1]
  /\ pos["L"][0] # Hall2Pos(0, 0, 1)
  /\ pos["L"][1] # Hall2Pos(0, 0, 1)
  /\ steps["R"] = 0

(***************************************************************************)
(* End of calibration                                                      *)
(***************************************************************************)
\* C16: calibration cannot get stuck, also when invocations are dropped.
\* calibration_func hands over on the tick it is dispatched with
\* mainCounter = CALIBRATION_SAMPLES, and while the sectors stay as they are
\* mainCounter only grows; so the hand-over can still come only if every
\* calibration tick dispatched with the sectors unchanged finds it due or
\* ahead: mainCounter <= CALIBRATION_SAMPLES, whatever has been dropped.
C16_CalibrationTerminates ==
  (pc = "dispatch" /\ timer_brushless = "calibration_func" /\ ~MotorMoved)
    => mainCounter <= CALIBRATION_SAMPLES

(***************************************************************************)
(* Order of the control steps and register writes                          *)
(***************************************************************************)
\* the three compare registers of motor m hold the duties of the output
\* record y, centred and clamped with the margin in force
WrittenFrom(m, y) ==
  /\ CCR'[IF m = "L" THEN "LEFT_TIM_U" ELSE "RIGHT_TIM_U"]
       = Compare(y.DC_phaA, pwm_margin')
  /\ CCR'[IF m = "L" THEN "LEFT_TIM_V" ELSE "RIGHT_TIM_V"]
       = Compare(y.DC_phaB, pwm_margin')
  /\ CCR'[IF m = "L" THEN "LEFT_TIM_W" ELSE "RIGHT_TIM_W"]
       = Compare(y.DC_phaC, pwm_margin')

\* C17: a dispatched run-time tick goes through the left section and then
\* the right section, once each, and nowhere else; a section runs its own
\* motor's control step only (the other motor's records are untouched) and
\* then writes its own motor's three compare registers from the outputs
\* that step has just left; every other step (calibration tick, nullFunc,
\* dropped invocation, return, main program) leaves the records of both
\* control steps, the six compare registers and both MOE bits as they are.
C17_StepOrder ==
  /\ [](pc = "right" => timer_brushless = "bldc_control")
  /\ [][/\ (pc = "dispatch" /\ timer_brushless = "bldc_control" /\ pc' # pc)
             => pc' = "right"
        /\ (pc = "right" /\ pc' # pc) => pc' = "clear"
        /\ (pc' = "right" /\ pc # "right") => LeftSection
        /\ LeftSection
             => /\ WrittenFrom("L", rtY_Left')
                /\ UNCHANGED <<rtU_Right, rtY_Right>>
                /\ \A r \in RegsOf("R") : CCR'[r] = CCR[r]
        /\ RightSection
             => /\ WrittenFrom("R", rtY_Right')
                /\ UNCHANGED <<rtU_Left, rtY_Left>>
                /\ \A r \in RegsOf("L") : CCR'[r] = CCR[r]
        /\ (~LeftSection /\ ~RightSection)
             => UNCHANGED <<rtU_Left, rtU_Right, rtY_Left, rtY_Right, CCR,
                            MOE>>]_vars

\* end of a run-time tick in which both control steps have left new duties
\* and a fault code, after a tick that had left none
C17_Witness ==
  /\ pc = "clear"
  /\ timer_brushless = "bldc_control"
  /\ mainCounter > CALIBRATION_SAMPLES + 1
  /\ rtY_Left = StepOutput(300, -1200, 1000, 1)
  /\ rtY_Right = StepOutput(300, -1200, 1000, 1)
  /\ rtU_Left.b_motEna = 1
  /\ CCR["LEFT_TIM_U"] = 1300
  /\ CCR["RIGHT_TIM_V"] = 110

(***************************************************************************)
(* SpecAsync: as SpecGate with every channel at the bias, and enable is    *)
(* written by a context that preempts the interrupt handler, at any point  *)
(* of a tick                                                               *)
(***************************************************************************)
\* a write of enable (line 67, a plain global) that does not wait for the
\* handler to return
Async_SetEnable(e) ==
  /\ e # enable
  /\ enable' = e
  /\ UNCHANGED <<timer_brushless, OverrunFlag, mainCounter, offset, cur, pos,
                 steps, enableFin, pwml, pwmr, pwm_margin, rtU_Left, rtU_Right,
                 rtY_Left, rtY_Right, z_ctrlTypSel, MOE, CCR, IDR, adc_buffer,
                 pc>>

NextAsync ==
  \/ timer_brushless # "bldc_control" /\ Main_bldc_start_calibration
  \/ pc = "idle" /\ DMA1_Channel1_IRQHandler(Uniform(Bias))
  \/ nullFunc
  \/ calibration_func
  \/ \E y \in GateOutputs : bldc_control_left(y)
  \/ \E y \in GateOutputs : bldc_control_right(y)
  \/ IRQ_return
  \/ \E e \in Bit : Async_SetEnable(e)

SpecAsync == Init /\ [][NextAsync]_vars

\* C18: the gate and both cutoffs of a run-time tick act on one value of
\* enable, also when enable is written during the tick: at the end of a
\* tick, with both DC-link currents within the ceiling, a motor whose
\* control step was given an enable input of 1 has its MOE bit set, and the
\* two MOE bits are equal.
C18_EnableReadOnce ==
  (/\ pc = "clear"
   /\ timer_brushless = "bldc_control"
   /\ \A k \in {"L_DC", "R_DC"} : -curDC_max <= cur[k] /\ cur[k] <= curDC_max)
    => /\ rtU_Left.b_motEna = 1 => MOE["L"]
       /\ rtU_Right.b_motEna = 1 => MOE["R"]
       /\ MOE["L"] = MOE["R"]

(***************************************************************************)
(* The dispatcher keeps dispatching                                        *)
(***************************************************************************)
\* the next step of an invocation whose handler has been dispatched
HandlerStep ==
  \/ nullFunc
  \/ calibration_func
  \/ \E y \in GenOutputs : bldc_control_left(y)
  \/ \E y \in GenOutputs : bldc_control_right(y)
  \/ IRQ_return

\* C19: OverrunFlag is clear whenever no invocation is in progress; a
\* dispatched handler, whichever is bound and whatever state faults,
\* over-current and restarts have left, always has its next step to take,
\* and its last step clears the flag; an invocation that arrives with none
\* in progress dispatches.
C19_NeverWedges ==
  /\ [](pc = "idle" => ~OverrunFlag)
  /\ [](pc # "idle" => ENABLED HandlerStep)
  /\ [][/\ (pc = "idle" /\ mainCounter' = mainCounter + 1)
             => (pc' = "dispatch" /\ OverrunFlag')
        /\ (pc = "clear" /\ pc' # pc) => (pc' = "idle" /\ ~OverrunFlag')]_vars

\* a run-time tick dispatched after a tick that left fault codes on both
\* motors and cut the left output for over-current
C19_Witness ==
  /\ pc = "dispatch"
  /\ timer_brushless = "bldc_control"
  /\ rtY_Left.z_errCode # 0
  /\ rtY_Right.z_errCode # 0
  /\ ~MOE["L"]
  /\ cur["L_DC"] > curDC_max
  /\ enable = 1

(***************************************************************************)
(* Inputs of the control steps                                             *)
(***************************************************************************)
\* C20: a run-time tick that starts with enable non-zero and both fault
\* codes of the previous tick zero gives each control step an enable input
\* of 1 and, as target, pwml for the left and pwmr for the right motor as
\* they are in that tick, whatever the DC-link currents; the three current
\* inputs of each step are its channels' stored offset minus raw sample,
\* as int16.
C20_StepInputs ==
  [][/\ (/\ LeftSection
         /\ enable # 0
         /\ rtY_Left.z_errCode = 0
         /\ rtY_Right.z_errCode = 0)
          => /\ rtU_Left'.b_motEna = 1
             /\ enableFin' = 1
     /\ (RightSection /\ enableFin = 1) => rtU_Right'.b_motEna = 1
     /\ LeftSection
          => /\ rtU_Left'.r_inpTgt = pwml
             /\ rtU_Left'.i_phaAB = ToInt16(offset["rlA"] - adc_buffer["rlA"])
             /\ rtU_Left'.i_phaBC = ToInt16(offset["rlB"] - adc_buffer["rlB"])
             /\ rtU_Left'.i_DCLink = ToInt16(offset["dcl"] - adc_buffer["dcl"])
     /\ RightSection
          => /\ rtU_Right'.r_inpTgt = pwmr
             /\ rtU_Right'.i_phaAB = ToInt16(offset["rrB"] - adc_buffer["rrB"])
             /\ rtU_Right'.i_phaBC = ToInt16(offset["rrC"] - adc_buffer["rrC"])
             /\ rtU_Right'.i_DCLink = ToInt16(offset["dcr"] - adc_buffer["dcr"])]_vars

\* end of a tick with targets 500 and -300: both steps were enabled and
\* got their targets although the left DC-link current was beyond the
\* ceiling and the left output cut
C20_Witness ==
  /\ pc = "clear"
  /\ enable = 1
  /\ rtU_Left.b_motEna = 1
  /\ rtU_Right.b_motEna = 1
  /\ rtU_Left.r_inpTgt = 500
  /\ rtU_Right.r_inpTgt = -300
  /\ rtU_Left.i_DCLink = -(curDC_max + 1)
  /\ rtU_Left.i_phaAB = 5
  /\ rtU_Right.i_phaBC = -6
  /\ ~MOE["L"]

====
